---- MODULE Spec2Model ----
(***************************************************************************)
(* A model of the crawl engine of pygoop (src/pygoop/crawler.py): the      *)
(* breadth-first traversal of Crawler.crawl, sequential and batched, the   *)
(* fetch pipeline of Crawler._fetch_url (validity, robots.txt, rate limit, *)
(* GET, classification) and the link extraction of Parser.extract_links.   *)
(***************************************************************************)
EXTENDS Integers, Sequences, FiniteSets, TLC

(***************************************************************************)
(* Bounds of the model.                                                    *)
(***************************************************************************)
MaxDepthBound == 2
MaxUrlsBound == 4
MaxConcurrency == 2
\* The longest time a response takes to arrive.
MaxLatency == 1
\* The number of crawl() calls made on one Crawler instance.
MaxCalls == 2

\* Crawler.__init__ default of `delay`, in clock ticks.
Delay == 1

(***************************************************************************)
(* URLs.  A URL is the 5-tuple urlparse splits it into.  A path is the     *)
(* sequence of its segments, path.split("/")[1:]: "" is <<>>, "/" is       *)
(* <<"">>, "/p" is <<"p">>, "/private/x" is <<"private", "x">>.            *)
(***************************************************************************)
Url(scheme, netloc, path) ==
    [scheme |-> scheme, netloc |-> netloc, path |-> path,
     query |-> <<>>, fragment |-> ""]

urlparse_netloc(url) == url.netloc

\* The f"{scheme}://{netloc}" key of the robots cache.
robots_domain(url) == <<url.scheme, url.netloc>>

\* utils.is_valid_url: structurally valid means a supported scheme and a host.
is_valid_url(url) == url.scheme \in {"http", "https"} /\ url.netloc # ""

\* Rank of a query key in lexicographic order.
KeyRank(k) == CASE k = "a" -> 1 [] k = "b" -> 2 [] OTHER -> 3

\* InsertSorted placing a pair before the pairs of the same key: not stable.
RECURSIVE InsertSortedUnstable(_, _)
InsertSortedUnstable(pair, sorted) ==
    IF sorted = <<>> THEN <<pair>>
    ELSE IF KeyRank(pair[1]) <= KeyRank(Head(sorted)[1])
         THEN <<pair>> \o sorted
         ELSE <<Head(sorted)>> \o InsertSortedUnstable(pair, Tail(sorted))

RECURSIVE InsertSorted(_, _)
InsertSorted(pair, sorted) ==
    IF sorted = <<>> THEN <<pair>>
    ELSE IF KeyRank(pair[1]) < KeyRank(Head(sorted)[1])
         THEN <<pair>> \o sorted
         ELSE <<Head(sorted)>> \o InsertSorted(pair, Tail(sorted))

\* Stable sort of the (key, value) pairs of a query by key.
RECURSIVE SortQuery(_)
SortQuery(q) ==
    IF q = <<>> THEN <<>>
    ELSE InsertSorted(q[Len(q)], SortQuery(SubSeq(q, 1, Len(q) - 1)))

\* clean_url that keeps the fragment.
clean_url_keep_fragment(url) ==
    [url EXCEPT !.query = SortQuery(url.query),
                !.path = IF url.path = <<>> THEN <<"">> ELSE url.path]

\* utils.clean_url: strip the fragment, sort the query, "" path becomes "/".
clean_url(url) ==
    [url EXCEPT !.fragment = "",
                !.query = SortQuery(url.query),
                !.path = IF url.path = <<>> THEN <<"">> ELSE url.path]

(***************************************************************************)
(* The URLs of the modelled web.                                           *)
(***************************************************************************)
S == Url("http", "a.com", <<"">>)
P == Url("http", "a.com", <<"p">>)
Q == Url("http", "a.com", <<"q">>)
X == Url("http", "a.com", <<"private", "x">>)
E == Url("http", "b.com", <<"">>)
E2 == Url("http", "b.com", <<"e2">>)
\* "http://a.com/p#sec": P with a fragment.
PFrag == [P EXCEPT !.fragment = "sec"]
\* "http:///p": passes extract_links' scheme filter, has no host.
NoHost == Url("http", "", <<"p">>)

\* What crawl() is called with.
SeedRaw == [Url("http", "a.com", <<>>) EXCEPT !.fragment = "top"]
SeedFtp == Url("ftp", "a.com", <<"">>)
SeedNoScheme == Url("", "", <<"a.com">>)
Seeds == {SeedRaw, SeedFtp, SeedNoScheme}

(***************************************************************************)
(* Hrefs of <a> tags and Parser.extract_links.                             *)
(***************************************************************************)
Abs(u) == [kind |-> "abs", url |-> u, path |-> <<>>]
Rel(p) == [kind |-> "path", url |-> S, path |-> p]
Js == [kind |-> "javascript", url |-> S, path |-> <<>>]
Frag == [kind |-> "fragment", url |-> S, path |-> <<>>]
Empty == [kind |-> "empty", url |-> S, path |-> <<>>]

\* urllib.parse.urljoin for an absolute href and for a root-relative one.
urljoin(base_url, href) ==
    IF href.kind = "abs" THEN href.url
    ELSE [scheme |-> base_url.scheme, netloc |-> base_url.netloc,
          path |-> href.path, query |-> <<>>, fragment |-> ""]

RECURSIVE extract_links(_, _)
extract_links(hrefs, base_url) ==
    IF hrefs = <<>> THEN <<>>
    ELSE LET href == Head(hrefs)
             rest == extract_links(Tail(hrefs), base_url)
             absolute_url == urljoin(base_url, href)
         IN  IF href.kind \in {"empty", "javascript", "fragment"} THEN rest
             ELSE IF absolute_url.scheme \in {"http", "https"}
                  THEN <<absolute_url>> \o rest
                  ELSE rest

(***************************************************************************)
(* The web: what requests.get answers for each URL.  `exc` is the          *)
(* exception raised ("none": a response arrives), `final` is response.url  *)
(* after redirects, `hrefs` the href attributes of the <a> tags of the     *)
(* body that is delivered.                                                 *)
(***************************************************************************)
Response(exc, final, status, ctype, title, hrefs) ==
    [exc |-> exc, final |-> final, status |-> status, ctype |-> ctype,
     title |-> title, hrefs |-> hrefs]

Html(final, hrefs) == Response("none", final, 200, "text/html", "T", hrefs)

Pages == {S, P, Q, X, E, E2}

SOpts ==
    { Html(S, <<Abs(P), Abs(Q)>>),
      Html(S, <<Abs(P), Abs(E), Js, Abs(P), Rel(<<"private", "x">>), Abs(NoHost)>>),
      Html(S, <<>>),
      Response("none", S, 404, "text/html", "T", <<Abs(P)>>),
      Html(E, <<Rel(<<"q">>), Abs(P)>>),
      Response("none", S, 200, "application/pdf", "T", <<Abs(P)>>),
      Response("timeout", S, 0, "", "", <<>>),
      Html(S, <<Abs(E), Abs(E2), Abs(P), Abs(PFrag)>>) }

POpts ==
    { Html(P, <<Abs(X), Abs(S)>>),
      Html(Q, <<Abs(X)>>),
      Html(E, <<Frag, Empty>>) }

QOpts ==
    { Html(Q, <<Abs(X), Abs(P)>>),
      Response("connection", Q, 0, "", "", <<>>) }

XOpts == { Html(X, <<Abs(Q)>>) }

\* For an exception other than Timeout and ConnectionError, `title` holds
\* its message str(e).
EOpts ==
    { Html(E, <<Abs(S)>>),
      Response("other", E, 0, "", "too many redirects", <<>>) }

E2Opts == { Html(E2, <<>>) }

Webs ==
    { (S :> s) @@ (P :> p) @@ (Q :> q) @@ (X :> x) @@ (E :> e) @@ (E2 :> f) :
        s \in SOpts, p \in POpts, q \in QOpts, x \in XOpts, e \in EOpts,
        f \in E2Opts }

\* What requests.get(url) meets: the fragment of a URL is not sent to the
\* server, which answers for the URL without it.
Served(w, url) == w[[url EXCEPT !.fragment = ""]]

(***************************************************************************)
(* robots.txt of an origin, as RobotFileParser.read() finds it: "rules" (a *)
(* file that disallows /private/ for every agent), "missing" (a 404) or    *)
(* "error" (urlopen raises).                                               *)
(***************************************************************************)
RobotsKinds == {"rules", "missing", "error"}

DisallowedPrefix == <<"private", "">>

\* str.startswith for a path and a directory prefix (one ending in "/").
StartsWith(path, prefix) ==
    /\ Len(path) >= Len(prefix)
    /\ \A i \in 1..(Len(prefix) - 1) : path[i] = prefix[i]

\* RobotFileParser.read(): the parser state it leaves, or "raised".
parser_read(kind) ==
    CASE kind = "rules" -> "parsed"
      [] kind = "missing" -> "allow_all"
      [] OTHER -> "raised"

\* RobotFileParser.can_fetch on a parser in state `parser`: a parser that
\* never read a file (last_checked = 0) answers False.
parser_can_fetch(parser, url) ==
    CASE parser = "allow_all" -> TRUE
      [] parser = "unread" -> FALSE
      [] OTHER -> ~StartsWith(url.path, DisallowedPrefix)

(***************************************************************************)
(* State.                                                                  *)
(***************************************************************************)
VARIABLES
    \* Crawler.__init__
    max_depth, max_urls, concurrent_requests, follow_external_links,
    respect_robots_txt, robots_cache, last_request_time,
    \* the environment: the web, robots.txt per host, the clock
    web, robots_txt, now,
    \* Crawler.crawl
    start_url, pc, results, visited, to_visit, base_domain,
    batch, batch_depths, batch_results,
    \* the slots of the batch in the order their calls returned
    finished,
    \* one _fetch_url call per batch slot: its position and its sleep_time
    wpc, wake,
    \* history: the frontier entry of each outcome in results, the entries
    \* handed to _fetch_url, the GETs issued, robots.txt reads per origin
    entries, handed, gets, robots_reads,
    \* the URL normalizer applied to a pair of URLs: its two inputs and the
    \* outputs of each successive application
    norm_a, norm_b, norm_out,
    \* the number of crawl() calls made on the Crawler instance
    calls

config == <<max_depth, max_urls, concurrent_requests, follow_external_links,
            respect_robots_txt>>
environment == <<web, robots_txt>>
normalizer == <<norm_a, norm_b, norm_out>>
crawl_state == <<start_url, results, visited, to_visit, base_domain, entries>>
batch_state == <<batch, batch_depths, handed>>
vars == <<config, environment, normalizer, calls, crawl_state, batch_state, pc,
          batch_results, finished,
          wpc, wake, robots_cache, last_request_time, now, gets, robots_reads>>

\* The dataclass CrawlResult (content and headers are not modelled).
CrawlResult(url, status_code, title, links, error) ==
    [url |-> url, status_code |-> status_code, title |-> title,
     links |-> links, error |-> error]

NoResult == CrawlResult(S, -1, "", <<>>, "pending")

Init ==
    /\ max_depth \in 0..MaxDepthBound
    /\ max_urls \in 1..MaxUrlsBound
    /\ concurrent_requests \in 1..MaxConcurrency
    /\ follow_external_links \in BOOLEAN
    /\ respect_robots_txt \in BOOLEAN
    /\ web \in Webs
    /\ robots_txt \in
         { ("a.com" :> k) @@ ("b.com" :> "missing") :
             k \in IF respect_robots_txt THEN RobotsKinds ELSE {"rules"} }
    /\ start_url \in Seeds
    /\ robots_cache = <<>>
    /\ last_request_time = <<>>
    /\ now = 0
    /\ pc = "init"
    /\ results = <<>>
    /\ visited = {}
    /\ to_visit = <<>>
    /\ base_domain = ""
    /\ batch = <<>>
    /\ batch_depths = <<>>
    /\ batch_results = <<>>
    /\ finished = <<>>
    /\ wpc = <<>>
    /\ wake = <<>>
    /\ entries = <<>>
    /\ handed = <<>>
    /\ gets = {}
    /\ robots_reads = <<>>
    /\ norm_a = S
    /\ norm_b = S
    /\ norm_out = <<>>
    /\ calls = 1

\* CrawlStart without the is_valid_url guard of line 257.
CrawlStartUnchecked ==
    /\ pc = "init"
    /\ start_url' = clean_url(start_url)
    /\ to_visit' = <<<<start_url', 0>>>>
    /\ base_domain' = urlparse_netloc(start_url')
    /\ pc' = "loop"
    /\ UNCHANGED <<config, environment, normalizer, calls, results, visited, entries, batch_state,
                   batch_results, finished, wpc, wake, robots_cache, last_request_time,
                   now, gets, robots_reads>>

(***************************************************************************)
(* Crawler.crawl, lines 257-270: the seed check and the initial state.     *)
(***************************************************************************)
CrawlStart ==
    /\ pc = "init"
    /\ IF ~is_valid_url(start_url)
       THEN /\ pc' = "done"
            /\ UNCHANGED <<start_url, to_visit, base_domain>>
       ELSE /\ start_url' = clean_url(start_url)
            /\ to_visit' = <<<<start_url', 0>>>>
            /\ base_domain' = urlparse_netloc(start_url')
            /\ pc' = "loop"
    /\ UNCHANGED <<config, environment, normalizer, calls, results, visited, entries, batch_state,
                   batch_results, finished, wpc, wake, robots_cache, last_request_time,
                   now, gets, robots_reads>>

\* The while condition of line 272 fails: return results.
LoopExit ==
    /\ pc = "loop"
    /\ ~(to_visit # <<>> /\ Len(results) < max_urls)
    /\ pc' = "done"
    /\ UNCHANGED <<config, environment, normalizer, calls, crawl_state, batch_state,
                   batch_results, finished, wpc, wake, robots_cache, last_request_time,
                   now, gets, robots_reads>>

\* SelectBatch without the `url not in visited` test of line 281.
RECURSIVE SelectBatchNoVisited(_, _, _, _, _)
SelectBatchNoVisited(tv, vis, b, bd, size) ==
    IF tv # <<>> /\ Len(b) < size
    THEN SelectBatchNoVisited(Tail(tv), vis \cup {Head(tv)[1]},
                              Append(b, Head(tv)[1]), Append(bd, Head(tv)[2]),
                              size)
    ELSE [to_visit |-> tv, visited |-> vis, batch |-> b, batch_depths |-> bd]

\* SelectBatch without the visited.add(url) of line 284.
RECURSIVE SelectBatchNoMark(_, _, _, _, _)
SelectBatchNoMark(tv, vis, b, bd, size) ==
    IF tv # <<>> /\ Len(b) < size
    THEN LET url == Head(tv)[1]
             depth == Head(tv)[2]
         IN  IF url \notin vis
             THEN SelectBatchNoMark(Tail(tv), vis, Append(b, url),
                                    Append(bd, depth), size)
             ELSE SelectBatchNoMark(Tail(tv), vis, b, bd, size)
    ELSE [to_visit |-> tv, visited |-> vis, batch |-> b, batch_depths |-> bd]

\* SelectBatch with <= for < in the loop condition of line 279.
RECURSIVE SelectBatchOversize(_, _, _, _, _)
SelectBatchOversize(tv, vis, b, bd, size) ==
    IF tv # <<>> /\ Len(b) <= size
    THEN LET url == Head(tv)[1]
             depth == Head(tv)[2]
         IN  IF url \notin vis
             THEN SelectBatchOversize(Tail(tv), vis \cup {url}, Append(b, url),
                                      Append(bd, depth), size)
             ELSE SelectBatchOversize(Tail(tv), vis, b, bd, size)
    ELSE [to_visit |-> tv, visited |-> vis, batch |-> b, batch_depths |-> bd]

\* Lines 279-284: pop entries off the frontier until the batch is full.
RECURSIVE SelectBatch(_, _, _, _, _)
SelectBatch(tv, vis, b, bd, size) ==
    IF tv # <<>> /\ Len(b) < size
    THEN LET url == Head(tv)[1]
             depth == Head(tv)[2]
         IN  IF url \notin vis
             THEN SelectBatch(Tail(tv), vis \cup {url}, Append(b, url),
                              Append(bd, depth), size)
             ELSE SelectBatch(Tail(tv), vis, b, bd, size)
    ELSE [to_visit |-> tv, visited |-> vis, batch |-> b, batch_depths |-> bd]

Entries(b, bd) == [i \in 1..Len(b) |-> [url |-> b[i], depth |-> bd[i]]]

\* Lines 273-291: select a batch and hand it to the executor.
BatchSelect ==
    /\ pc = "loop"
    /\ to_visit # <<>> /\ Len(results) < max_urls
    /\ concurrent_requests > 1
    /\ LET sel == SelectBatch(to_visit, visited, <<>>, <<>>, concurrent_requests)
       IN  /\ to_visit' = sel.to_visit
           /\ visited' = sel.visited
           /\ batch' = sel.batch
           /\ batch_depths' = sel.batch_depths
           /\ handed' = handed \o Entries(sel.batch, sel.batch_depths)
           /\ batch_results' = [i \in 1..Len(sel.batch) |-> NoResult]
           /\ finished' = <<>>
           /\ wpc' = [i \in 1..Len(sel.batch) |-> "start"]
           /\ wake' = [i \in 1..Len(sel.batch) |-> 0]
           /\ pc' = IF sel.batch = <<>> THEN "loop" ELSE "join"
    /\ UNCHANGED <<config, environment, normalizer, calls, start_url, results, base_domain,
                   entries, robots_cache, last_request_time, now, gets,
                   robots_reads>>

\* SeqPop that moves a visited entry to the back of the frontier.
SeqPopRequeueVisited ==
    /\ pc = "loop"
    /\ to_visit # <<>> /\ Len(results) < max_urls
    /\ ~(concurrent_requests > 1)
    /\ LET url == Head(to_visit)[1]
           depth == Head(to_visit)[2]
       IN  IF url \in visited
           THEN /\ to_visit' = Append(Tail(to_visit), Head(to_visit))
                /\ pc' = "loop"
                /\ UNCHANGED <<visited, batch_state, batch_results, finished, wpc, wake>>
           ELSE /\ to_visit' = Tail(to_visit)
                /\ visited' = visited \cup {url}
                /\ batch' = <<url>>
                /\ batch_depths' = <<depth>>
                /\ handed' = Append(handed, [url |-> url, depth |-> depth])
                /\ batch_results' = <<NoResult>>
                /\ finished' = <<>>
                /\ wpc' = <<"start">>
                /\ wake' = <<0>>
                /\ pc' = "fetch"
    /\ UNCHANGED <<config, environment, normalizer, calls, start_url, results, base_domain,
                   entries, robots_cache, last_request_time, now, gets,
                   robots_reads>>

\* SeqPop taking the newest entry of the frontier instead of the oldest.
SeqPopLast ==
    /\ pc = "loop"
    /\ to_visit # <<>> /\ Len(results) < max_urls
    /\ ~(concurrent_requests > 1)
    /\ LET url == to_visit[Len(to_visit)][1]
           depth == to_visit[Len(to_visit)][2]
       IN  /\ to_visit' = SubSeq(to_visit, 1, Len(to_visit) - 1)
           /\ IF url \in visited
              THEN /\ pc' = "loop"
                   /\ UNCHANGED <<visited, batch_state, batch_results, finished, wpc, wake>>
              ELSE /\ visited' = visited \cup {url}
                   /\ batch' = <<url>>
                   /\ batch_depths' = <<depth>>
                   /\ handed' = Append(handed, [url |-> url, depth |-> depth])
                   /\ batch_results' = <<NoResult>>
                   /\ finished' = <<>>
                   /\ wpc' = <<"start">>
                   /\ wake' = <<0>>
                   /\ pc' = "fetch"
    /\ UNCHANGED <<config, environment, normalizer, calls, start_url, results, base_domain,
                   entries, robots_cache, last_request_time, now, gets,
                   robots_reads>>

\* Lines 313-319: pop one entry; skip it if visited, else fetch it.
SeqPop ==
    /\ pc = "loop"
    /\ to_visit # <<>> /\ Len(results) < max_urls
    /\ ~(concurrent_requests > 1)
    /\ LET url == Head(to_visit)[1]
           depth == Head(to_visit)[2]
       IN  /\ to_visit' = Tail(to_visit)
           /\ IF url \in visited
              THEN /\ pc' = "loop"
                   /\ UNCHANGED <<visited, batch_state, batch_results, finished, wpc, wake>>
              ELSE /\ visited' = visited \cup {url}
                   /\ batch' = <<url>>
                   /\ batch_depths' = <<depth>>
                   /\ handed' = Append(handed, [url |-> url, depth |-> depth])
                   /\ batch_results' = <<NoResult>>
                   /\ finished' = <<>>
                   /\ wpc' = <<"start">>
                   /\ wake' = <<0>>
                   /\ pc' = "fetch"
    /\ UNCHANGED <<config, environment, normalizer, calls, start_url, results, base_domain,
                   entries, robots_cache, last_request_time, now, gets,
                   robots_reads>>

(***************************************************************************)
(* Crawler._fetch_url, one call per batch slot i.  In the concurrent       *)
(* branch the calls of a batch run on the executor's threads and           *)
(* interleave at the steps below; in the sequential branch the single call *)
(* runs on the caller's thread.                                            *)
(***************************************************************************)
Running(i) == pc \in {"fetch", "join"} /\ i \in 1..Len(batch)

Finish(i, result) ==
    /\ batch_results' = [batch_results EXCEPT ![i] = result]
    /\ finished' = Append(finished, i)
    /\ wpc' = [wpc EXCEPT ![i] = "done"]

Blocked(url) == CrawlResult(url, 0, "", <<>>, "Blocked by robots.txt")

\* FetchCheck passing every valid URL to the rate limiter, the robots
\* verdict not consulted.
FetchCheckRateFirst(i) ==
    /\ Running(i)
    /\ wpc[i] = "start"
    /\ LET url == batch[i]
       IN  IF ~is_valid_url(url)
           THEN Finish(i, CrawlResult(url, 0, "", <<>>, "Invalid URL"))
           ELSE /\ wpc' = [wpc EXCEPT ![i] = "rate"]
                /\ UNCHANGED <<batch_results, finished>>
    /\ UNCHANGED <<config, environment, normalizer, calls, crawl_state, batch_state, pc, wake,
                   robots_cache, last_request_time, now, gets, robots_reads>>

\* FetchCheck consulting robots.txt whatever respect_robots_txt says.
FetchCheckAlwaysRobots(i) ==
    /\ Running(i)
    /\ wpc[i] = "start"
    /\ LET url == batch[i]
           domain == robots_domain(url)
       IN  IF ~is_valid_url(url)
           THEN Finish(i, CrawlResult(url, 0, "", <<>>, "Invalid URL"))
           ELSE IF domain \in DOMAIN robots_cache
           THEN IF parser_can_fetch(robots_cache[domain], url)
                THEN /\ wpc' = [wpc EXCEPT ![i] = "rate"]
                     /\ UNCHANGED <<batch_results, finished>>
                ELSE Finish(i, Blocked(url))
           ELSE /\ wpc' = [wpc EXCEPT ![i] = "robots"]
                /\ UNCHANGED <<batch_results, finished>>
    /\ UNCHANGED <<config, environment, normalizer, calls, crawl_state, batch_state, pc, wake,
                   robots_cache, last_request_time, now, gets, robots_reads>>

\* Lines 183-195 with _can_fetch (142-147) and the cache lookup of
\* _get_robots_parser (110-114).
FetchCheck(i) ==
    /\ Running(i)
    /\ wpc[i] = "start"
    /\ LET url == batch[i]
           domain == robots_domain(url)
       IN  IF ~is_valid_url(url)
           THEN Finish(i, CrawlResult(url, 0, "", <<>>, "Invalid URL"))
           ELSE IF ~respect_robots_txt
           THEN /\ wpc' = [wpc EXCEPT ![i] = "rate"]
                /\ UNCHANGED <<batch_results, finished>>
           ELSE IF domain \in DOMAIN robots_cache
           THEN IF parser_can_fetch(robots_cache[domain], url)
                THEN /\ wpc' = [wpc EXCEPT ![i] = "rate"]
                     /\ UNCHANGED <<batch_results, finished>>
                ELSE Finish(i, Blocked(url))
           ELSE /\ wpc' = [wpc EXCEPT ![i] = "robots"]
                /\ UNCHANGED <<batch_results, finished>>
    /\ UNCHANGED <<config, environment, normalizer, calls, crawl_state, batch_state, pc, wake,
                   robots_cache, last_request_time, now, gets, robots_reads>>

\* cached_parser caching a parser that allows everything, whatever was read.
cached_parser_permissive(kind) == "allow_all"

\* The parser _get_robots_parser caches after parser.read() (lines 120-128).
cached_parser(kind) ==
    IF parser_read(kind) = "raised" THEN "unread" ELSE parser_read(kind)

\* _get_robots_parser after a cache miss (116-130), then can_fetch (147) and
\* the verdict of lines 190-195.
RobotsRead(i) ==
    /\ Running(i)
    /\ wpc[i] = "robots"
    /\ LET url == batch[i]
           domain == robots_domain(url)
           parser == cached_parser(robots_txt[url.netloc])
           count == IF domain \in DOMAIN robots_reads
                    THEN robots_reads[domain] ELSE 0
       IN  /\ robots_cache' = (domain :> parser) @@ robots_cache
           /\ robots_reads' = (domain :> count + 1) @@ robots_reads
           /\ IF parser_can_fetch(parser, url)
              THEN /\ wpc' = [wpc EXCEPT ![i] = "rate"]
                   /\ UNCHANGED <<batch_results, finished>>
              ELSE Finish(i, Blocked(url))
    /\ UNCHANGED <<config, environment, normalizer, calls, crawl_state, batch_state, pc, wake,
                   last_request_time, now, gets>>

\* RateCheck that waits only for an earlier GET to the same scheme and
\* host.
RateCheckSameOrigin(i) ==
    /\ Running(i)
    /\ wpc[i] = "rate"
    /\ LET domain == urlparse_netloc(batch[i])
           elapsed == now - last_request_time[domain]
       IN  wake' = [wake EXCEPT ![i] =
                      IF /\ domain \in DOMAIN last_request_time
                         /\ \E g \in gets :
                                robots_domain(g.url) = robots_domain(batch[i])
                         /\ elapsed < Delay
                      THEN now + (Delay - elapsed)
                      ELSE now]
    /\ wpc' = [wpc EXCEPT ![i] = "stamp"]
    /\ UNCHANGED <<config, environment, normalizer, calls, crawl_state, batch_state, pc,
                   batch_results, finished, robots_cache, last_request_time, now, gets,
                   robots_reads>>

\* _respect_rate_limit, lines 161-167: read the clock table, compute the
\* time until which to sleep.
RateCheck(i) ==
    /\ Running(i)
    /\ wpc[i] = "rate"
    /\ LET domain == urlparse_netloc(batch[i])
           elapsed == now - last_request_time[domain]
       IN  wake' = [wake EXCEPT ![i] =
                      IF domain \in DOMAIN last_request_time /\ elapsed < Delay
                      THEN now + (Delay - elapsed)
                      ELSE now]
    /\ wpc' = [wpc EXCEPT ![i] = "stamp"]
    /\ UNCHANGED <<config, environment, normalizer, calls, crawl_state, batch_state, pc,
                   batch_results, finished, robots_cache, last_request_time, now, gets,
                   robots_reads>>

\* _respect_rate_limit, lines 169-171: sleep, then write the clock table.
RateStamp(i) ==
    /\ Running(i)
    /\ wpc[i] = "stamp"
    /\ now' = IF wake[i] > now THEN wake[i] ELSE now
    /\ last_request_time' =
         (urlparse_netloc(batch[i]) :> now') @@ last_request_time
    /\ wpc' = [wpc EXCEPT ![i] = "get"]
    /\ UNCHANGED <<config, environment, normalizer, calls, crawl_state, batch_state, pc,
                   batch_results, finished, wake, robots_cache, gets, robots_reads>>

\* 'text/html' in content_type
IsHtml(content_type) == content_type = "text/html"

\* Classify without the status test of line 213: every response is parsed.
ClassifyAnyStatus(url, response) ==
    CASE response.exc = "timeout" ->
           CrawlResult(url, 0, "", <<>>, "Request timed out")
      [] response.exc = "connection" ->
           CrawlResult(url, 0, "", <<>>, "Connection error")
      [] response.exc = "other" ->
           CrawlResult(url, 0, "", <<>>, "Error: " \o response.title)
      [] OTHER ->
           CrawlResult(response.final, response.status, response.title,
                       extract_links(response.hrefs, url), "")

\* Classify without the `except Exception` clause of lines 239-244: an
\* exception other than Timeout and ConnectionError leaves the call without
\* an outcome.
ClassifyUncaught(url, response) ==
    CASE response.exc = "timeout" ->
           CrawlResult(url, 0, "", <<>>, "Request timed out")
      [] response.exc = "connection" ->
           CrawlResult(url, 0, "", <<>>, "Connection error")
      [] response.exc = "other" -> NoResult
      [] response.exc = "none" /\ response.status # 200 ->
           CrawlResult(response.final, response.status, "", <<>>,
                       "HTTP error: " \o ToString(response.status))
      [] response.exc = "none" /\ response.status = 200
           /\ ~IsHtml(response.ctype) ->
           CrawlResult(response.final, 200, "", <<>>,
                       "Not an HTML page (Content-Type: " \o response.ctype \o ")")
      [] OTHER ->
           CrawlResult(response.final, 200, response.title,
                       extract_links(response.hrefs, url), "")

\* Classify without the content-type test of line 216: every 200 response
\* is parsed.
ClassifyAnyContentType(url, response) ==
    CASE response.exc = "timeout" ->
           CrawlResult(url, 0, "", <<>>, "Request timed out")
      [] response.exc = "connection" ->
           CrawlResult(url, 0, "", <<>>, "Connection error")
      [] response.exc = "other" ->
           CrawlResult(url, 0, "", <<>>, "Error: " \o response.title)
      [] response.exc = "none" /\ response.status # 200 ->
           CrawlResult(response.final, response.status, "", <<>>,
                       "HTTP error: " \o ToString(response.status))
      [] OTHER ->
           CrawlResult(response.final, 200, response.title,
                       extract_links(response.hrefs, url), "")

\* Lines 199-244: the outcome of requests.get(url).
Classify(url, response) ==
    CASE response.exc = "timeout" ->
           CrawlResult(url, 0, "", <<>>, "Request timed out")
      [] response.exc = "connection" ->
           CrawlResult(url, 0, "", <<>>, "Connection error")
      [] response.exc = "other" ->
           CrawlResult(url, 0, "", <<>>, "Error: " \o response.title)
      [] response.exc = "none" /\ response.status # 200 ->
           CrawlResult(response.final, response.status, "", <<>>,
                       "HTTP error: " \o ToString(response.status))
      [] response.exc = "none" /\ response.status = 200
           /\ ~IsHtml(response.ctype) ->
           CrawlResult(response.final, 200, "", <<>>,
                       "Not an HTML page (Content-Type: " \o response.ctype \o ")")
      [] OTHER ->
           CrawlResult(response.final, 200, response.title,
                       extract_links(response.hrefs, url), "")

\* Get that also writes the clock table when the response has arrived.
GetStampOnReturn(i) ==
    /\ Running(i)
    /\ wpc[i] = "get"
    /\ gets' = gets \cup {[url |-> batch[i], t |-> now]}
    /\ \E latency \in 0..MaxLatency : now' = now + latency
    /\ last_request_time' =
         (urlparse_netloc(batch[i]) :> now') @@ last_request_time
    /\ Finish(i, Classify(batch[i], Served(web, batch[i])))
    /\ UNCHANGED <<config, environment, normalizer, calls, crawl_state, batch_state, pc, wake,
                   robots_cache, robots_reads>>

\* Get that is held back while a call of the batch sleeps in the rate
\* limiter.
GetAfterSleepers(i) ==
    /\ Running(i)
    /\ wpc[i] = "get"
    /\ \A k \in 1..Len(batch) : ~(wpc[k] = "stamp" /\ wake[k] > now)
    /\ gets' = gets \cup {[url |-> batch[i], t |-> now]}
    /\ \E latency \in 0..MaxLatency : now' = now + latency
    /\ Finish(i, Classify(batch[i], Served(web, batch[i])))
    /\ UNCHANGED <<config, environment, normalizer, calls, crawl_state, batch_state, pc, wake,
                   robots_cache, last_request_time, robots_reads>>

\* Lines 199-244: the GET is issued at `now`; the response, or the
\* exception, arrives `latency` later.
Get(i) ==
    /\ Running(i)
    /\ wpc[i] = "get"
    /\ gets' = gets \cup {[url |-> batch[i], t |-> now]}
    /\ \E latency \in 0..MaxLatency : now' = now + latency
    /\ Finish(i, Classify(batch[i], Served(web, batch[i])))
    /\ UNCHANGED <<config, environment, normalizer, calls, crawl_state, batch_state, pc, wake,
                   robots_cache, last_request_time, robots_reads>>

(***************************************************************************)
(* Crawler.crawl: the fold of the outcomes into results and the frontier.  *)
(***************************************************************************)
\* BudgetReached with > for >=.
BudgetReachedLate(res) == Len(res) > max_urls

\* BudgetReached one outcome before the budget is used up.
BudgetReachedEarly(res) == Len(res) + 1 >= max_urls

\* Lines 298 and 323.
BudgetReached(res) == Len(res) >= max_urls

\* FollowLinks with <= for <, with the depth test one level early, and
\* without the depth test.
FollowLinksInclusive(depth, result) == depth <= max_depth /\ result.links # <<>>
FollowLinksEarly(depth, result) == depth + 1 < max_depth /\ result.links # <<>>
FollowLinksAnyDepth(depth, result) == result.links # <<>>

\* Lines 302 and 327.
FollowLinks(depth, result) == depth < max_depth /\ result.links # <<>>

\* ShouldFollow without the domain test.
ShouldFollowAnyDomain(link) ==
    link \notin visited

\* Lines 304-309 and 329-334.
ShouldFollow(link) ==
    /\ link \notin visited
    /\ (follow_external_links \/ urlparse_netloc(link) = base_domain)

\* Enqueue giving a link the depth of the page it was found on.
RECURSIVE EnqueueFlat(_, _)
EnqueueFlat(links, depth) ==
    IF links = <<>> THEN <<>>
    ELSE IF ShouldFollow(Head(links))
         THEN <<<<Head(links), depth>>>> \o EnqueueFlat(Tail(links), depth)
         ELSE EnqueueFlat(Tail(links), depth)

RECURSIVE Enqueue(_, _)
Enqueue(links, depth) ==
    IF links = <<>> THEN <<>>
    ELSE IF ShouldFollow(Head(links))
         THEN <<<<Head(links), depth + 1>>>> \o Enqueue(Tail(links), depth)
         ELSE Enqueue(Tail(links), depth)

\* FoldBatch that enqueues the links of an outcome before the budget test.
RECURSIVE FoldBatchEnqueueFirst(_, _, _, _)
FoldBatchEnqueueFirst(i, res, ent, tv) ==
    IF i > Len(batch_results) THEN [results |-> res, entries |-> ent, to_visit |-> tv]
    ELSE LET result == batch_results[i]
             depth == batch_depths[i]
             res1 == Append(res, result)
             ent1 == Append(ent, [url |-> batch[i], depth |-> depth])
             tv1 == IF FollowLinks(depth, result)
                    THEN tv \o Enqueue(result.links, depth)
                    ELSE tv
         IN  IF BudgetReached(res1)
             THEN [results |-> res1, entries |-> ent1, to_visit |-> tv1]
             ELSE FoldBatchEnqueueFirst(i + 1, res1, ent1, tv1)

\* FoldBatch taking the outcomes in the order the calls returned.
RECURSIVE FoldBatchAsCompleted(_, _, _, _)
FoldBatchAsCompleted(i, res, ent, tv) ==
    IF i > Len(finished) THEN [results |-> res, entries |-> ent, to_visit |-> tv]
    ELSE LET result == batch_results[finished[i]]
             depth == batch_depths[finished[i]]
             res1 == Append(res, result)
             ent1 == Append(ent, [url |-> batch[finished[i]], depth |-> depth])
         IN  IF BudgetReached(res1)
             THEN [results |-> res1, entries |-> ent1, to_visit |-> tv]
             ELSE FoldBatchAsCompleted(i + 1, res1, ent1,
                                       IF FollowLinks(depth, result)
                                       THEN tv \o Enqueue(result.links, depth)
                                       ELSE tv)

\* FoldBatch taking the outcomes of the batch from the last to the first.
RECURSIVE FoldBatchReversed(_, _, _, _)
FoldBatchReversed(i, res, ent, tv) ==
    IF i > Len(batch_results) THEN [results |-> res, entries |-> ent, to_visit |-> tv]
    ELSE LET slot == Len(batch_results) + 1 - i
             result == batch_results[slot]
             depth == batch_depths[slot]
             res1 == Append(res, result)
             ent1 == Append(ent, [url |-> batch[slot], depth |-> depth])
         IN  IF BudgetReached(res1)
             THEN [results |-> res1, entries |-> ent1, to_visit |-> tv]
             ELSE FoldBatchReversed(i + 1, res1, ent1,
                                    IF FollowLinks(depth, result)
                                    THEN tv \o Enqueue(result.links, depth)
                                    ELSE tv)

\* The for loop of lines 294-310 from position i on.
RECURSIVE FoldBatch(_, _, _, _)
FoldBatch(i, res, ent, tv) ==
    IF i > Len(batch_results) THEN [results |-> res, entries |-> ent, to_visit |-> tv]
    ELSE LET result == batch_results[i]
             depth == batch_depths[i]
             res1 == Append(res, result)
             ent1 == Append(ent, [url |-> batch[i], depth |-> depth])
         IN  IF BudgetReached(res1)
             THEN [results |-> res1, entries |-> ent1, to_visit |-> tv]
             ELSE FoldBatch(i + 1, res1, ent1,
                            IF FollowLinks(depth, result)
                            THEN tv \o Enqueue(result.links, depth)
                            ELSE tv)

\* AllDone satisfied as soon as the first call of the batch has returned.
AllDoneFirst == batch # <<>> => wpc[1] = "done"

AllDone == \A i \in 1..Len(batch) : wpc[i] = "done"

\* BatchFold without waiting for the executor to join.
BatchFoldEarly ==
    /\ pc = "join"
    /\ LET f == FoldBatch(1, results, entries, to_visit)
       IN  /\ results' = f.results
           /\ entries' = f.entries
           /\ to_visit' = f.to_visit
    /\ pc' = "loop"
    /\ UNCHANGED <<config, environment, normalizer, calls, start_url, visited, base_domain,
                   batch_state, batch_results, finished, wpc, wake, robots_cache,
                   last_request_time, now, gets, robots_reads>>

\* Lines 291-310: the executor has joined; fold the batch in batch order.
BatchFold ==
    /\ pc = "join"
    /\ AllDone
    /\ LET f == FoldBatch(1, results, entries, to_visit)
       IN  /\ results' = f.results
           /\ entries' = f.entries
           /\ to_visit' = f.to_visit
    /\ pc' = "loop"
    /\ UNCHANGED <<config, environment, normalizer, calls, start_url, visited, base_domain,
                   batch_state, batch_results, finished, wpc, wake, robots_cache,
                   last_request_time, now, gets, robots_reads>>

\* Lines 319-335: append the outcome, break on the budget, else enqueue.
SeqFold ==
    /\ pc = "fetch"
    /\ AllDone
    /\ LET result == batch_results[1]
           depth == batch_depths[1]
       IN  /\ results' = Append(results, result)
           /\ entries' = Append(entries, [url |-> batch[1], depth |-> depth])
           /\ IF BudgetReached(results')
              THEN /\ pc' = "done"
                   /\ UNCHANGED to_visit
              ELSE /\ pc' = "loop"
                   /\ to_visit' = IF FollowLinks(depth, result)
                                  THEN to_visit \o Enqueue(result.links, depth)
                                  ELSE to_visit
    /\ UNCHANGED <<config, environment, normalizer, calls, start_url, visited, base_domain,
                   batch_state, batch_results, finished, wpc, wake, robots_cache,
                   last_request_time, now, gets, robots_reads>>

Next ==
    \/ CrawlStart
    \/ LoopExit
    \/ BatchSelect
    \/ SeqPop
    \/ \E i \in 1..MaxConcurrency : FetchCheck(i)
    \/ \E i \in 1..MaxConcurrency : RobotsRead(i)
    \/ \E i \in 1..MaxConcurrency : RateCheck(i)
    \/ \E i \in 1..MaxConcurrency : RateStamp(i)
    \/ \E i \in 1..MaxConcurrency : Get(i)
    \/ BatchFold
    \/ SeqFold

Spec == Init /\ [][Next]_vars

(***************************************************************************)
(* A Crawler instance used for more than one crawl() call.                 *)
(***************************************************************************)
\* CrawlAgain with robots_cache and last_request_time emptied at the start
\* of the call.
CrawlAgainFresh ==
    /\ pc = "done"
    /\ calls < MaxCalls
    /\ calls' = calls + 1
    /\ start_url' \in {SeedRaw, P}
    /\ \E gap \in 0..Delay : now' = now + gap
    /\ robots_cache' = <<>>
    /\ last_request_time' = <<>>
    /\ pc' = "init"
    /\ results' = <<>>
    /\ visited' = {}
    /\ to_visit' = <<>>
    /\ base_domain' = ""
    /\ batch' = <<>>
    /\ batch_depths' = <<>>
    /\ batch_results' = <<>>
    /\ finished' = <<>>
    /\ wpc' = <<>>
    /\ wake' = <<>>
    /\ entries' = <<>>
    /\ handed' = <<>>
    /\ UNCHANGED <<config, environment, normalizer, gets, robots_reads>>

\* crawl() called again on the same instance, at once or Delay later: its
\* locals are fresh (lines 264-270); the fields set in __init__ (lines
\* 97-98) are what the previous call left.
CrawlAgain ==
    /\ pc = "done"
    /\ calls < MaxCalls
    /\ calls' = calls + 1
    /\ start_url' \in {SeedRaw, P}
    /\ \E gap \in 0..Delay : now' = now + gap
    /\ pc' = "init"
    /\ results' = <<>>
    /\ visited' = {}
    /\ to_visit' = <<>>
    /\ base_domain' = ""
    /\ batch' = <<>>
    /\ batch_depths' = <<>>
    /\ batch_results' = <<>>
    /\ finished' = <<>>
    /\ wpc' = <<>>
    /\ wake' = <<>>
    /\ entries' = <<>>
    /\ handed' = <<>>
    /\ UNCHANGED <<config, environment, normalizer, gets, robots_reads,
                   robots_cache, last_request_time>>

\* The web of the repeated crawls: the seed links to /p and /q.
ReuseWebs == { w \in Webs : w[S] = Html(S, <<Abs(P), Abs(Q)>>) /\ w[E].exc = "none" }

InitReuse ==
    /\ Init
    /\ web \in ReuseWebs
    /\ start_url = SeedRaw
    /\ ~follow_external_links
    /\ max_urls < MaxUrlsBound

NextReuse == Next \/ CrawlAgain

SpecReuse == InitReuse /\ [][NextReuse]_vars

\* The caller's thread keeps running and every _fetch_url call returns
\* (requests.get has a timeout, time.sleep ends).
FairSpec == Spec /\ WF_vars(Next)

(***************************************************************************)
(* Properties.                                                             *)
(***************************************************************************)
Min(a, b) == IF a < b THEN a ELSE b

Distinct(seq) == \A i, j \in 1..Len(seq) : i # j => seq[i] # seq[j]

ResultUrls == [i \in 1..Len(results) |-> results[i].url]
EntryUrls == [i \in 1..Len(entries) |-> entries[i].url]
HandedUrls == [i \in 1..Len(handed) |-> handed[i].url]

Count(seq, x) == Cardinality({i \in 1..Len(seq) : seq[i] = x})

Links(seq) == {seq[i] : i \in 1..Len(seq)}

\* C1: in every reachable state of a crawl, sequential or concurrent,
\* len(results) <= max_urls.
C1_Budget == Len(results) <= max_urls

\* A concurrent batch completed more fetches than the budget had left.
C1_Witness ==
    /\ concurrent_requests > 1
    /\ pc = "loop"
    /\ Len(results) = max_urls
    /\ Len(handed) > max_urls
    /\ \A i \in 1..Len(batch) : wpc[i] = "done"

\* C2: no URL is handed to the fetcher at a depth greater than max_depth;
\* the seed is handed over at depth 0 and a frontier entry of depth d + 1
\* exists only for a link found on a page of depth d < max_depth.
C2_Depth ==
    /\ \A i \in 1..Len(handed) : handed[i].depth <= max_depth
    /\ handed # <<>> => handed[1] = [url |-> start_url, depth |-> 0]
    /\ \A i \in 1..Len(to_visit) :
         \/ to_visit[i] = <<start_url, 0>>
         \/ /\ to_visit[i][2] <= max_depth
            /\ \E j \in 1..Len(entries) :
                 /\ entries[j].depth + 1 = to_visit[i][2]
                 /\ to_visit[i][1] \in Links(results[j].links)

\* A page fetched at depth max_depth >= 1 carried links, in both branches.
C2_Witness ==
    /\ max_depth >= 1
    /\ pc = "done"
    /\ \E j \in 1..Len(entries) :
         /\ entries[j].depth = max_depth
         /\ results[j].links # <<>>
         /\ j < Len(results)

\* C3: the URLs recorded in the outcomes of results are pairwise distinct,
\* also when fetched URLs are redirected.
C3_DistinctRecorded == Distinct(ResultUrls)

\* C4: with follow_external_links = False every outcome of results has a
\* URL of the seed's domain, except the seed's own outcome.
C4_Scope ==
    ~follow_external_links =>
        \A i \in 1..Len(results) :
            \/ urlparse_netloc(results[i].url) = base_domain
            \/ entries[i].url = start_url

IsPrefix(a, b) == Len(a) <= Len(b) /\ a = SubSeq(b, 1, Len(a))

\* C5 as stated: a URL is handed to the fetcher at most once, and once the
\* crawl has returned every URL handed over appears exactly once in results.
C5_ExactlyOnce ==
    /\ Distinct(HandedUrls)
    /\ pc = "done" =>
         \A i \in 1..Len(handed) : Count(EntryUrls, handed[i].url) = 1

\* C5 as amended: a URL is handed to the fetcher at most once and its
\* outcome appears at most once in results; it appears exactly once
\* whenever the fold of its batch was not cut off by the max_urls break,
\* which is always the case with concurrency 1.
C5_AtMostOnce ==
    /\ Distinct(HandedUrls)
    /\ Distinct(EntryUrls)
    /\ IsPrefix(entries, handed)
    /\ (pc \in {"loop", "done"} /\ Len(results) < max_urls) => entries = handed
    /\ (pc \in {"loop", "done"} /\ concurrent_requests = 1) => entries = handed

\* Two pages fetched in the same concurrent batch both linked to a URL not
\* yet visited, so the fold enqueued it twice; it was then fetched once.
C5_Witness ==
    /\ concurrent_requests > 1
    /\ pc = "done"
    /\ \E i, j, k \in 1..Len(results) :
         /\ 1 < i /\ i < j /\ j < k
         /\ entries[i].depth < max_depth
         /\ entries[j].depth < max_depth
         /\ entries[k].url \in Links(results[i].links)
         /\ entries[k].url \in Links(results[j].links)
         /\ entries[k].depth = entries[i].depth + 1
         /\ Count(HandedUrls, entries[k].url) = 1
         /\ Count(EntryUrls, entries[k].url) = 1

\* The in-scope URLs within d link hops of the seed, from the web alone.
InScope(link) == follow_external_links \/ link.netloc = clean_url(start_url).netloc

LinkSet(u) ==
    IF u \in Pages THEN Links(extract_links(web[u].hrefs, u)) ELSE {}

RECURSIVE Reach(_)
Reach(d) ==
    IF d = 0 THEN {clean_url(start_url)}
    ELSE LET r == Reach(d - 1)
         IN  r \cup {l \in UNION {LinkSet(u) : u \in r} : InScope(l)}

\* Every reachable page answers 200 HTML under its own URL and no
\* robots.txt stands in the way.
AllPagesHtml ==
    \A u \in Reach(max_depth) :
        /\ u \in Pages
        /\ web[u] = Html(u, web[u].hrefs)
        /\ respect_robots_txt =>
             parser_can_fetch(cached_parser(robots_txt[u.netloc]), u)

\* C6: if every page fetches as 200 HTML and N distinct in-scope URLs are
\* within max_depth link hops of the seed, the crawl returns exactly
\* min(max_urls, N) outcomes with pairwise distinct URLs, for any
\* concurrency.
C6_Count ==
    (pc = "done" /\ is_valid_url(start_url) /\ AllPagesHtml) =>
        /\ Len(results) = Min(max_urls, Cardinality(Reach(max_depth)))
        /\ Distinct(ResultUrls)

\* A concurrent crawl of a web with more reachable pages than the budget.
C6_Witness ==
    /\ pc = "done"
    /\ is_valid_url(start_url)
    /\ AllPagesHtml
    /\ concurrent_requests > 1
    /\ max_urls >= 2
    /\ Cardinality(Reach(max_depth)) > max_urls
    /\ Len(results) = max_urls

\* C7: with max_depth = 0 only the seed is handed to the fetcher, whatever
\* its links and the concurrency, and the crawl returns one outcome.
C7_SeedOnly ==
    max_depth = 0 =>
        /\ Len(handed) <= 1
        /\ gets \subseteq {[url |-> start_url, t |-> 0]}
        /\ (pc = "done" /\ is_valid_url(start_url)) => Len(results) = 1

\* A seed page with links, crawled concurrently at max_depth = 0.
C7_Witness ==
    /\ max_depth = 0
    /\ max_urls > 1
    /\ concurrent_requests > 1
    /\ pc = "done"
    /\ Len(results) = 1
    /\ results[1].links # <<>>

UnderPrivate(url) == StartsWith(url.path, DisallowedPrefix)

RobotsDisallowPrivate ==
    /\ respect_robots_txt
    /\ \A h \in DOMAIN robots_txt : h = base_domain => robots_txt[h] = "rules"

\* C8 as stated: with respect_robots_txt and a robots.txt that disallows
\* /private/, results holds no outcome for a discovered link /private/x.
C8_NoOutcome ==
    RobotsDisallowPrivate =>
        \A i \in 1..Len(entries) : ~UnderPrivate(entries[i].url)

\* C8 as amended: no GET is issued for the link /private/x; the outcome
\* results holds for it is the robots verdict: status_code 0, error
\* "Blocked by robots.txt", no title, no links.
C8_NoGet ==
    RobotsDisallowPrivate =>
        /\ \A g \in gets : g.url.netloc = base_domain => ~UnderPrivate(g.url)
        /\ \A i \in 1..Len(entries) :
             (UnderPrivate(entries[i].url) /\ entries[i].url.netloc = base_domain)
                => results[i] = CrawlResult(entries[i].url, 0, "", <<>>,
                                            "Blocked by robots.txt")

\* The link /private/x was discovered, handed to the fetcher and blocked.
C8_Witness ==
    /\ RobotsDisallowPrivate
    /\ pc = "done"
    /\ \E i \in 1..Len(entries) :
         /\ i > 1
         /\ entries[i].url = X
         /\ results[i].error = "Blocked by robots.txt"

SeedGot404 ==
    /\ pc = "done"
    /\ \E g \in gets : g.url = start_url
    /\ web[start_url].exc = "none"
    /\ web[start_url].status = 404

\* C9 as stated: a seed whose GET returns 404 yields exactly one outcome,
\* with status_code 404, error "HTTPError(404)" and no links, and nothing
\* else is fetched.
C9_Seed404Stated ==
    SeedGot404 =>
        /\ Len(results) = 1
        /\ results[1].status_code = 404
        /\ results[1].error = "HTTPError(404)"
        /\ results[1].links = <<>>
        /\ Len(handed) = 1

\* C9 as amended: the same, with the error text the code produces,
\* "HTTP error: 404".
C9_Seed404 ==
    SeedGot404 =>
        /\ Len(results) = 1
        /\ results[1].status_code = 404
        /\ results[1].error = "HTTP error: 404"
        /\ results[1].links = <<>>
        /\ Len(handed) = 1
        /\ Cardinality(gets) = 1

\* A 404 seed whose body carries links, with budget and depth to spare.
C9_Witness ==
    /\ SeedGot404
    /\ web[start_url].hrefs # <<>>
    /\ max_urls > 1
    /\ max_depth > 0
    /\ Len(results) = 1

\* C10: crawl() with an invalid seed returns an empty sequence, before any
\* robots.txt read, rate-limit clock update or GET.
C10_InvalidSeed ==
    ~is_valid_url(start_url) =>
        /\ pc \in {"init", "done"}
        /\ results = <<>>
        /\ handed = <<>>
        /\ gets = {}
        /\ robots_reads = <<>>
        /\ robots_cache = <<>>
        /\ last_request_time = <<>>

\* crawl() has returned for an invalid seed.
C10_Witness ==
    /\ ~is_valid_url(start_url)
    /\ pc = "done"
    /\ results = <<>>

\* The outcome that encodes the terminal condition entry `url` met, given
\* whether a GET was issued for it.
GetIssued(url) == \E g \in gets : g.url = url

Encodes(url, result) ==
    LET r == Served(web, url)
    IN  /\ result # NoResult
        /\ ~is_valid_url(url) => result = CrawlResult(url, 0, "", <<>>, "Invalid URL")
        /\ (is_valid_url(url) /\ ~GetIssued(url)) =>
             result = CrawlResult(url, 0, "", <<>>, "Blocked by robots.txt")
        /\ GetIssued(url) =>
             /\ r.exc = "timeout" =>
                  result = CrawlResult(url, 0, "", <<>>, "Request timed out")
             /\ r.exc = "connection" =>
                  result = CrawlResult(url, 0, "", <<>>, "Connection error")
             /\ r.exc = "other" =>
                  result = CrawlResult(url, 0, "", <<>>, "Error: " \o r.title)
             /\ (r.exc = "none" /\ r.status # 200) =>
                  /\ result.status_code = r.status
                  /\ result.error = "HTTP error: " \o ToString(r.status)
             /\ (r.exc = "none" /\ r.status = 200 /\ r.ctype # "text/html") =>
                  /\ result.status_code = 200
                  /\ result.error # ""
             /\ (r.exc = "none" /\ r.status = 200 /\ r.ctype = "text/html") =>
                  /\ result.status_code = 200
                  /\ result.error = ""

\* C11: _fetch_url never raises: every call that has finished has returned
\* an outcome that encodes its terminal condition, the crawl never stops
\* before it returns, and it returns only with the frontier empty or the
\* budget used up, whatever outcomes failed on the way.
C11_NeverRaises ==
    /\ \A i \in 1..Len(batch) :
         wpc[i] = "done" => Encodes(batch[i], batch_results[i])
    /\ \A i \in 1..Len(results) : Encodes(entries[i].url, results[i])
    /\ pc # "done" => ENABLED Next
    /\ (pc = "done" /\ is_valid_url(start_url)) =>
         (to_visit = <<>> \/ Len(results) >= max_urls)

\* Failed outcomes (a connection error, a transport error) are followed by
\* further outcomes in results.
C11_Witness ==
    \E i, j \in 1..Len(results) :
        /\ i < j
        /\ results[i].status_code = 0
        /\ results[i].error \in {"Connection error", "Error: too many redirects",
                                 "Invalid URL", "Blocked by robots.txt"}
        /\ results[j].error = ""

\* C12: when robots.txt of an origin is missing or its read fails, the
\* cache entry created for the origin is permissive: it allows every URL of
\* the origin, and no URL of the origin is blocked.
C12_FailOpen ==
    \A d \in DOMAIN robots_cache :
        robots_txt[d[2]] \in {"missing", "error"} =>
            /\ \A u \in Pages :
                 robots_domain(u) = d => parser_can_fetch(robots_cache[d], u)
            /\ \A i \in 1..Len(results) :
                 robots_domain(entries[i].url) = d =>
                     results[i].error # "Blocked by robots.txt"

\* C13: links are normalized before the visited check and before they are
\* enqueued, so two links that differ only in fragment or query order lead
\* to at most one fetch: no two URLs handed to the fetcher have the same
\* normalized form.
C13_UniqueNormalized ==
    \A i, j \in 1..Len(handed) :
        i # j => clean_url(handed[i].url) # clean_url(handed[j].url)

(***************************************************************************)
(* The URL normalizer on its own: clean_url applied to a pair of valid     *)
(* URLs, and applied again to its own output.                              *)
(***************************************************************************)
MaxQueryLen == 2

QueryPairs == { <<"a", "1">>, <<"a", "2">>, <<"b", "1">> }
Queries == UNION { [1..n -> QueryPairs] : n \in 0..MaxQueryLen }
NormUrls ==
    { [scheme |-> "http", netloc |-> h, path |-> p, query |-> q,
       fragment |-> f] :
        h \in {"a.com", "b.com"}, p \in {<<>>, <<"">>, <<"p">>},
        q \in Queries, f \in {"", "sec"} }

NormInit ==
    /\ norm_a \in NormUrls
    /\ norm_b \in NormUrls
    /\ norm_out = <<>>
    /\ calls = 1
    /\ max_depth = 0
    /\ max_urls = 1
    /\ concurrent_requests = 1
    /\ follow_external_links = FALSE
    /\ respect_robots_txt = FALSE
    /\ web = CHOOSE w \in Webs : w[S] = Html(S, <<>>)
    /\ robots_txt = ("a.com" :> "rules") @@ ("b.com" :> "missing")
    /\ start_url = S
    /\ robots_cache = <<>>
    /\ last_request_time = <<>>
    /\ now = 0
    /\ pc = "init"
    /\ results = <<>>
    /\ visited = {}
    /\ to_visit = <<>>
    /\ base_domain = ""
    /\ batch = <<>>
    /\ batch_depths = <<>>
    /\ batch_results = <<>>
    /\ finished = <<>>
    /\ wpc = <<>>
    /\ wake = <<>>
    /\ entries = <<>>
    /\ handed = <<>>
    /\ gets = {}
    /\ robots_reads = <<>>

\* clean_url applied to both inputs.
Normalize ==
    /\ norm_out = <<>>
    /\ calls = 1
    /\ norm_out' = << <<clean_url(norm_a), clean_url(norm_b)>> >>
    /\ UNCHANGED <<config, environment, crawl_state, batch_state, pc,
                   batch_results, finished, wpc, wake, robots_cache, last_request_time,
                   now, gets, robots_reads, norm_a, norm_b, calls>>

\* clean_url applied to its own outputs.
Renormalize ==
    /\ Len(norm_out) = 1
    /\ norm_out' = Append(norm_out, << clean_url(norm_out[1][1]),
                                       clean_url(norm_out[1][2]) >>)
    /\ UNCHANGED <<config, environment, crawl_state, batch_state, pc,
                   batch_results, finished, wpc, wake, robots_cache, last_request_time,
                   now, gets, robots_reads, norm_a, norm_b, calls>>

NormNext == Normalize \/ Renormalize

SpecNorm == NormInit /\ [][NormNext]_vars

\* How often a pair occurs in a query.
PairCount(q, pair) == Cardinality({ i \in 1..Len(q) : q[i] = pair })

\* The values of one key, in the order they appear in the query.
ValuesOf(q, k) == SelectSeq(q, LAMBDA pair : pair[1] = k)

\* b's query holds the pairs of a's query in some order.
SameParameters(a, b) ==
    /\ Len(a.query) = Len(b.query)
    /\ \A pair \in QueryPairs : PairCount(a.query, pair) = PairCount(b.query, pair)

\* a and b differ at most in the order of the query parameters and in the
\* fragment.
DifferInOrderOrFragment(a, b) ==
    /\ a.scheme = b.scheme
    /\ a.netloc = b.netloc
    /\ a.path = b.path
    /\ SameParameters(a, b)

\* Parameters that share a key appear in the same relative order.
SameOrderPerKey(a, b) ==
    \A k \in {"a", "b"} : ValuesOf(a.query, k) = ValuesOf(b.query, k)

RootPaths == { <<>>, <<"">> }

\* C14 as stated: the normalizer maps two valid URLs that differ only in
\* query-parameter order or in a trailing fragment to the same string, and
\* two URLs that differ in path or host to different strings.
C14_Equivalence ==
    Len(norm_out) >= 1 =>
        /\ DifferInOrderOrFragment(norm_a, norm_b)
               => norm_out[1][1] = norm_out[1][2]
        /\ (norm_a.path # norm_b.path \/ norm_a.netloc # norm_b.netloc)
               => norm_out[1][1] # norm_out[1][2]

\* C14 amended: the normalizer maps two valid URLs that differ only in the
\* fragment, or in the order of query parameters while parameters sharing a
\* key keep their relative order, to the same string; and two URLs that
\* differ in host, or in path other than the empty path against "/", to
\* different strings.
C14_EquivalenceStable ==
    Len(norm_out) >= 1 =>
        /\ (DifferInOrderOrFragment(norm_a, norm_b) /\ SameOrderPerKey(norm_a, norm_b))
               => norm_out[1][1] = norm_out[1][2]
        /\ (\/ norm_a.netloc # norm_b.netloc
            \/ (norm_a.path # norm_b.path
                /\ ~(norm_a.path \in RootPaths /\ norm_b.path \in RootPaths)))
               => norm_out[1][1] # norm_out[1][2]

\* Two inputs with the parameters in a different order and different
\* fragments, normalized to the same URL.
C14_Witness ==
    /\ Len(norm_out) >= 1
    /\ norm_a.query # norm_b.query
    /\ norm_a.fragment # norm_b.fragment
    /\ DifferInOrderOrFragment(norm_a, norm_b)
    /\ SameOrderPerKey(norm_a, norm_b)
    /\ norm_out[1][1] = norm_out[1][2]

\* C15: normalization is idempotent: normalizing a normalized URL yields
\* the same URL.
C15_Idempotent ==
    Len(norm_out) = 2 => norm_out[2] = norm_out[1]

\* A URL the first application changed in query order, fragment and path,
\* normalized a second time.
C15_Witness ==
    /\ Len(norm_out) = 2
    /\ norm_out[1][1] # norm_a
    /\ norm_a.fragment # ""
    /\ norm_a.path = <<>>
    /\ norm_a.query # norm_out[1][1].query

\* C16: for every origin and every interleaving of fetch workers, any two
\* GETs issued to that origin are at least Delay apart.
C16_Spacing ==
    \A g, h \in gets :
        (g # h /\ urlparse_netloc(g.url) = urlparse_netloc(h.url))
            => (g.t - h.t >= Delay \/ h.t - g.t >= Delay)

\* C17: with respect_robots_txt, robots.txt of an origin is fetched exactly
\* once per crawl: every origin in the cache was read once, and no origin
\* is read a second time, whatever the concurrency.
C17_ReadOnce ==
    respect_robots_txt =>
        /\ \A d \in DOMAIN robots_cache : d \in DOMAIN robots_reads
        /\ \A d \in DOMAIN robots_reads : robots_reads[d] = 1

\* C18: the rate-limit clock table and the robots cache are never written
\* by a fetch worker thread: while a concurrent batch is dispatched and not
\* yet joined, neither table changes.
C18_TablesControlOnly ==
    [][pc = "join" =>
         /\ robots_cache' = robots_cache
         /\ last_request_time' = last_request_time]_vars

\* A _fetch_url call of the current batch has not returned yet.
WorkerRunning == \E i \in 1..Len(batch) : Running(i) /\ wpc[i] # "done"

\* C19: the visited set, the results sequence and the frontier change only
\* in steps taken while no fetch is running: batch selection before the
\* dispatch (at the loop head), the fold after every call of the batch has
\* returned.
C19_ControlOnly ==
    [][(visited' # visited \/ results' # results \/ to_visit' # to_visit)
           => /\ ~WorkerRunning
              /\ pc \in {"init", "loop"} \/ (pc \in {"join", "fetch"} /\ AllDone)
      ]_vars

\* A concurrent batch of two was selected, both calls returned, and its
\* fold appended both outcomes and enqueued links.
C19_Witness ==
    /\ pc = "loop"
    /\ concurrent_requests > 1
    /\ Len(batch) = 2
    /\ AllDone
    /\ Len(results) >= 3
    /\ results[Len(results)] = batch_results[2]
    /\ results[Len(results) - 1] = batch_results[1]
    /\ to_visit # <<>>

\* C20: a URL enters visited only when it is popped from the frontier for
\* fetching, never when it is discovered as a link, and it enters once:
\* visited is exactly the set of URLs handed to the fetcher, one pop per
\* member; and a URL is in visited when its network call starts.
C20_VisitedAtPop ==
    /\ visited = Links(HandedUrls)
    /\ Cardinality(visited) = Len(handed)
    /\ \A i \in 1..Len(batch) : Running(i) => batch[i] \in visited
    /\ \A g \in gets : g.url \in visited

\* A link was discovered and waits in the frontier, not in visited, while
\* the GET of a URL popped after the seed has been issued.
C20_Witness ==
    /\ \E k \in 1..Len(to_visit) : to_visit[k][1] \notin visited
    /\ Len(handed) >= 2
    /\ \E i \in 1..Len(batch) :
           /\ Running(i) /\ wpc[i] = "done" /\ GetIssued(batch[i])
           /\ batch[i] # start_url

\* C21: the last-fetch timestamp of an origin is written in the step that
\* lets the caller pass to its GET, with the time of that step, and the
\* step in which the GET is issued and answered leaves the table alone: a
\* GET finds its origin stamped no later than its own issue time.
C21_StampAtIssue ==
    [][/\ gets' # gets
           => /\ last_request_time' = last_request_time
              /\ \A g \in gets' \ gets :
                     /\ urlparse_netloc(g.url) \in DOMAIN last_request_time
                     /\ last_request_time[urlparse_netloc(g.url)] <= g.t
       /\ last_request_time' # last_request_time
           => \E i \in 1..Len(batch) :
                  /\ Running(i) /\ wpc[i] = "stamp" /\ wpc'[i] = "get"
                  /\ last_request_time'[urlparse_netloc(batch[i])] = now'
      ]_vars

\* A sequential crawl whose previous GET to the origin was issued Delay
\* ago and took that long to answer: the next call has no time to sleep.
C21_Witness ==
    /\ concurrent_requests = 1
    /\ pc = "fetch"
    /\ wpc = <<"stamp">>
    /\ wake[1] = now
    /\ \E h \in gets :
           /\ urlparse_netloc(h.url) = urlparse_netloc(batch[1])
           /\ h.t = now - Delay
           /\ last_request_time[urlparse_netloc(batch[1])] = h.t

\* The position of a gate in _fetch_url.
GateRank(p) ==
    CASE p = "start" -> 0 [] p = "robots" -> 1 [] p = "rate" -> 2
      [] p = "stamp" -> 3 [] p = "get" -> 4 [] OTHER -> 5

\* The URL of slot i is valid and, when robots.txt is respected, the cached
\* parser of its origin allows it.
PassedGates(i) ==
    /\ is_valid_url(batch[i])
    /\ respect_robots_txt =>
           /\ robots_domain(batch[i]) \in DOMAIN robots_cache
           /\ parser_can_fetch(robots_cache[robots_domain(batch[i])], batch[i])

GateErrors == {"Invalid URL", "Blocked by robots.txt"}

\* C22: a fetch passes its gates in the order validity, robots, rate
\* limiter, GET: only a valid URL reaches the robots lookup, only a valid
\* and allowed URL reaches the rate limiter and the GET, and the step that
\* ends a fetch as invalid or disallowed yields status_code 0 and writes
\* neither the clock table nor a GET (nor, for an invalid URL, the robots
\* cache).
C22_GateOrder ==
    [][\A i \in 1..Len(batch) : Running(i) =>
         /\ wpc[i] = "robots" => is_valid_url(batch[i])
         /\ wpc[i] \in {"rate", "stamp", "get"} => PassedGates(i)
         /\ wpc'[i] # wpc[i] => GateRank(wpc'[i]) > GateRank(wpc[i])
         /\ (wpc[i] # "done" /\ wpc'[i] = "done"
               /\ batch_results'[i].error \in GateErrors)
              => /\ batch_results'[i].status_code = 0
                 /\ wpc[i] \in {"start", "robots"}
                 /\ gets' = gets
                 /\ last_request_time' = last_request_time
                 /\ batch_results'[i].error = "Invalid URL"
                      => /\ wpc[i] = "start"
                         /\ robots_cache' = robots_cache
                         /\ robots_reads' = robots_reads
      ]_vars

\* One batch held a disallowed URL and an invalid one: both ended with
\* status_code 0 and no GET, while other URLs were fetched.
C22_Witness ==
    /\ respect_robots_txt
    /\ \E i, j \in 1..Len(batch) :
           /\ wpc[i] = "done" /\ wpc[j] = "done"
           /\ batch_results[i].error = "Invalid URL"
           /\ batch_results[j].error = "Blocked by robots.txt"
           /\ ~GetIssued(batch[i]) /\ ~GetIssued(batch[j])
           /\ robots_domain(batch[i]) \notin DOMAIN robots_cache
    /\ gets # {}
    /\ last_request_time # <<>>

\* The GET for url was issued and answered 200 with an HTML content type.
Html200(url) ==
    /\ GetIssued(url)
    /\ Served(web, url).exc = "none"
    /\ Served(web, url).status = 200
    /\ IsHtml(Served(web, url).ctype)

\* An outcome with an error has no title and no links; it has no error
\* exactly when its URL was answered 200 with HTML.
Extracted(url, result) ==
    /\ result.error = "" <=> Html200(url)
    /\ result.error # "" => (result.title = "" /\ result.links = <<>>)

FrontierUrls == Links(HandedUrls) \cup { to_visit[k][1] : k \in 1..Len(to_visit) }

\* C23: content is extracted only from a 200 response with an HTML content
\* type: an outcome has an empty error exactly when its response was 200
\* HTML, every other outcome has a non-empty error, no title and no links,
\* and every frontier entry other than the seed is a link of an outcome
\* without error.
C23_ExtractOnlyHtml200 ==
    /\ \A i \in 1..Len(batch) :
         wpc[i] = "done" => Extracted(batch[i], batch_results[i])
    /\ \A i \in 1..Len(results) : Extracted(entries[i].url, results[i])
    /\ \A u \in FrontierUrls :
         \/ u = start_url
         \/ \E i \in 1..Len(results) :
                results[i].error = "" /\ u \in Links(results[i].links)

\* The seed was answered 200 with a non-HTML content type and a body that
\* holds links: its outcome has an error and no links, and the crawl ended
\* with budget left and nothing else in the frontier.
C23_Witness ==
    /\ pc = "done"
    /\ Len(results) = 1 /\ max_urls > 1 /\ max_depth > 0
    /\ results[1].status_code = 200
    /\ results[1].error # ""
    /\ results[1].links = <<>>
    /\ Served(web, entries[1].url).hrefs # <<>>
    /\ to_visit = <<>>

\* C24: for a 200 HTML response reached through a redirect, the links of
\* the outcome are the hrefs of the page resolved against the final URL,
\* which is the URL the outcome records.
C24_ResolvedAgainstFinal ==
    \A i \in 1..Len(results) :
        (results[i].error = "" /\ results[i].url # entries[i].url)
            => results[i].links =
                   extract_links(Served(web, entries[i].url).hrefs, results[i].url)

\* The while condition of crawl() is false.
LoopCondFalse == to_visit = <<>> \/ Len(results) = max_urls

\* C25: every crawl terminates when each fetch returns: the loop ends only
\* with the frontier empty or len(results) = max_urls, every iteration
\* that goes on removes at least one frontier entry, the frontier grows
\* only in a step that also appends to results, and the crawl eventually
\* returns.
C25_Terminates ==
    /\ <>(pc = "done")
    /\ []((pc = "done" /\ is_valid_url(start_url)) => LoopCondFalse)
    /\ [][/\ (pc = "loop" /\ pc' # "done")
               => Len(to_visit') < Len(to_visit)
          /\ (pc # "init" /\ Len(to_visit') > Len(to_visit))
               => Len(results') > Len(results)
         ]_vars

\* A crawl that returned because the frontier ran empty, with budget left,
\* after it had skipped a frontier entry that was already visited.
C25_Witness ==
    /\ pc = "done"
    /\ to_visit = <<>>
    /\ Len(results) >= 3
    /\ Len(results) < max_urls

\* The frontier entries the outcomes first..last of the batch add.
RECURSIVE BatchLinks(_, _)
BatchLinks(first, last) ==
    IF first > last THEN <<>>
    ELSE (IF FollowLinks(batch_depths[first], batch_results[first])
          THEN Enqueue(batch_results[first].links, batch_depths[first])
          ELSE <<>>) \o BatchLinks(first + 1, last)

\* C26: in concurrent mode the fold appends the outcomes of a batch in the
\* order their URLs were popped; with the append that makes len(results)
\* = max_urls it stops: the rest of the batch is neither appended nor
\* enqueued from, no link of the capping outcome is enqueued, and the loop
\* ends.
C26_FoldOrder ==
    [][/\ (pc = "join" /\ pc' = "loop") =>
            LET n == Len(results)
                k == Len(results') - n
                capped == Len(results') = max_urls
            IN  /\ k \in 1..Len(batch)
                /\ \A j \in 1..Len(batch) :
                       handed[Len(handed) - Len(batch) + j].url = batch[j]
                /\ \A j \in 1..k :
                       /\ results'[n + j] = batch_results[j]
                       /\ entries'[n + j].url = batch[j]
                /\ k < Len(batch) => capped
                /\ to_visit' = to_visit \o
                       BatchLinks(1, IF capped THEN k - 1 ELSE k)
       /\ (pc = "loop" /\ concurrent_requests > 1 /\ Len(results) >= max_urls)
            => pc' = "done"
      ]_vars

\* The first outcome of a batch of two made len(results) = max_urls: the
\* second is not in results, and a link of the first that would have been
\* followed is not in the frontier.
C26_Witness ==
    /\ pc = "loop"
    /\ concurrent_requests > 1
    /\ Len(batch) = 2 /\ AllDone
    /\ Len(results) = max_urls
    /\ entries[Len(entries)].url = batch[1]
    /\ batch_depths[1] < max_depth
    /\ \E l \in Links(batch_results[1].links) :
           /\ ShouldFollow(l)
           /\ \A k \in 1..Len(to_visit) : to_visit[k][1] # l

\* The position of x in a sequence without repetitions.
Pos(seq, x) == CHOOSE k \in 1..Len(seq) : seq[k] = x

\* C27 as stated: under concurrency > 1 the outcomes of one batch stand in
\* results in the order in which the batch's fetches completed.
C27_CompletionOrder ==
    [][(pc = "join" /\ pc' = "loop") =>
          \A a, b \in 1..(Len(results') - Len(results)) :
              a < b => Pos(finished, a) < Pos(finished, b)
      ]_vars

\* C27 amended: under concurrency > 1 the outcomes of one batch stand in
\* results in the order in which their URLs were popped from the frontier,
\* whatever the order in which the fetches completed, and the batches stand
\* in dispatch order: outcomes are ordered as their URLs were handed to
\* the fetcher.
C27_DispatchOrder ==
    \A i, j \in 1..Len(results) :
        i < j => Pos(HandedUrls, entries[i].url) < Pos(HandedUrls, entries[j].url)

\* The second fetch of a batch returned before the first, and the fold
\* put the first's outcome before the second's, after an earlier batch.
C27_Witness ==
    /\ pc = "loop"
    /\ concurrent_requests > 1
    /\ finished = <<2, 1>>
    /\ Len(results) >= 3
    /\ entries[Len(entries) - 1].url = batch[1]
    /\ entries[Len(entries)].url = batch[2]
    /\ results[Len(results)] = batch_results[2]

\* The links of a sequence that pass the domain test of lines 331-333.
InDomain(links) ==
    SelectSeq(links, LAMBDA l :
        follow_external_links \/ urlparse_netloc(l) = base_domain)

\* The URLs in the order the crawl came to know them: the seed, then the
\* links of each outcome whose links are followed, outcome by outcome.
RECURSIVE Discovered(_)
Discovered(n) ==
    IF n = 0 THEN <<start_url>>
    ELSE Discovered(n - 1) \o
         (IF FollowLinks(entries[n].depth, results[n])
          THEN InDomain(results[n].links) ELSE <<>>)

\* The first position of x in a sequence that holds it.
FirstPos(seq, x) ==
    CHOOSE k \in 1..Len(seq) :
        seq[k] = x /\ \A m \in 1..(k - 1) : seq[m] # x

\* C28: with concurrency 1 the outcomes stand in results in the order in
\* which their URLs were first enqueued, and the depths of successive
\* outcomes never decrease.
C28_FrontierOrder ==
    concurrent_requests = 1 =>
        \A i, j \in 1..Len(results) :
            i < j =>
                /\ entries[i].depth <= entries[j].depth
                /\ FirstPos(Discovered(Len(results)), entries[i].url)
                     < FirstPos(Discovered(Len(results)), entries[j].url)

\* A sequential crawl with two outcomes of depth 1 followed by one of
\* depth 2, where a link to an already known URL was met on the way.
C28_Witness ==
    /\ concurrent_requests = 1
    /\ Len(results) = 4
    /\ entries[2].depth = 1 /\ entries[3].depth = 1 /\ entries[4].depth = 2
    /\ \E i \in 1..3 :
           \E l \in Links(results[i].links) \cap Links(Discovered(4)) :
               FirstPos(Discovered(4), l) < FirstPos(Discovered(4), entries[i].url)

\* C29: a dispatched batch is joined before anything else happens: while
\* it is dispatched, results, the frontier and the batch change, and the
\* loop goes on to its budget test, only in a step taken when every fetch
\* of the batch has returned its outcome.
C29_JoinFirst ==
    [][pc = "join" =>
         ((results' # results \/ to_visit' # to_visit \/ batch' # batch
             \/ pc' # "join")
            => /\ \A i \in 1..Len(batch) :
                      wpc[i] = "done" /\ batch_results[i] # NoResult
               /\ Len(finished) = Len(batch)
               /\ pc' = "loop")
      ]_vars

\* The first outcome of a batch of two used up the budget; the GET of the
\* second had nevertheless been issued and answered before the fold.
C29_Witness ==
    /\ pc = "loop"
    /\ concurrent_requests > 1
    /\ Len(batch) = 2
    /\ Len(finished) = 2
    /\ Len(results) = max_urls
    /\ results[Len(results)] = batch_results[1]
    /\ GetIssued(batch[2])
    /\ batch_results[2].error = ""

\* The slots whose _fetch_url call has started and not returned.
InFlight == { i \in 1..Len(batch) : Running(i) /\ wpc[i] # "done" }

\* C30: at every instant at most concurrent_requests fetches are in
\* flight: a batch never holds more URLs than that, and with
\* concurrent_requests = 1 no batch is dispatched and at most one fetch
\* runs at a time.
C30_BoundedInFlight ==
    /\ Len(batch) <= concurrent_requests
    /\ Cardinality(InFlight) <= concurrent_requests
    /\ concurrent_requests = 1 => (pc # "join" /\ Cardinality(InFlight) <= 1)

\* Two fetches of one batch in flight at once, both about to issue
\* their GET.
C30_Witness ==
    /\ concurrent_requests = 2
    /\ pc = "join"
    /\ Cardinality(InFlight) = 2
    /\ wpc = <<"get", "get">>

\* C31 as stated: robots cache entries and rate-limit clocks live for one
\* crawl() call: a later call on the instance starts with both tables
\* empty.
C31_RunScoped ==
    (calls > 1 /\ pc = "init") =>
        (robots_cache = <<>> /\ last_request_time = <<>>)

\* C31 amended: robots cache entries and rate-limit clocks are scoped to
\* the Crawler instance: what one crawl() call wrote is there for a later
\* call on the same instance, which (with concurrency 1) reads robots.txt
\* of no origin a second time and spaces its GETs from the earlier call's
\* GETs to the same host.
C31_InstanceScoped ==
    /\ \A d \in DOMAIN robots_reads : d \in DOMAIN robots_cache
    /\ \A g \in gets : urlparse_netloc(g.url) \in DOMAIN last_request_time
    /\ concurrent_requests = 1 =>
         /\ \A d \in DOMAIN robots_reads : robots_reads[d] = 1
         /\ \A g, h \in gets :
              (g # h /\ urlparse_netloc(g.url) = urlparse_netloc(h.url))
                  => (g.t - h.t >= Delay \/ h.t - g.t >= Delay)

\* The first fetch of a second crawl() call passed the robots check
\* without a second read of robots.txt and is about to sleep because of
\* the GET of the first call.
C31_Witness ==
    /\ calls = 2
    /\ respect_robots_txt
    /\ concurrent_requests = 1
    /\ Len(handed) = 1
    /\ wpc = <<"stamp">>
    /\ wake[1] > now
    /\ robots_reads[robots_domain(batch[1])] = 1

(***************************************************************************)
(* A host that serves pages over http and over https.                      *)
(***************************************************************************)
\* "https://a.com/p"
PS == Url("https", "a.com", <<"p">>)

SchemeWebs ==
    { (S :> s) @@ (PS :> ps) @@ (P :> Html(P, <<Abs(PS)>>))
        @@ (Q :> Html(Q, <<>>)) @@ (X :> Html(X, <<>>))
        @@ (E :> Html(E, <<>>)) @@ (E2 :> Html(E2, <<>>)) :
        s \in { Html(S, <<Abs(PS), Abs(P)>>), Html(S, <<Abs(P), Abs(PS)>>),
                Html(S, <<Abs(PS)>>), Html(S, <<Abs(PS), Abs(E)>>) },
        ps \in { Html(PS, <<>>), Html(PS, <<Abs(Q), Abs(X)>>) } }

InitSchemes ==
    /\ max_depth \in 0..MaxDepthBound
    /\ max_urls \in 1..MaxUrlsBound
    /\ concurrent_requests \in 1..MaxConcurrency
    /\ follow_external_links \in BOOLEAN
    /\ respect_robots_txt \in BOOLEAN
    /\ web \in SchemeWebs
    /\ robots_txt \in
         { ("a.com" :> k) @@ ("b.com" :> "missing") :
             k \in IF respect_robots_txt THEN RobotsKinds ELSE {"rules"} }
    /\ start_url = SeedRaw
    /\ robots_cache = <<>>
    /\ last_request_time = <<>>
    /\ now = 0
    /\ pc = "init"
    /\ results = <<>>
    /\ visited = {}
    /\ to_visit = <<>>
    /\ base_domain = ""
    /\ batch = <<>>
    /\ batch_depths = <<>>
    /\ batch_results = <<>>
    /\ finished = <<>>
    /\ wpc = <<>>
    /\ wake = <<>>
    /\ entries = <<>>
    /\ handed = <<>>
    /\ gets = {}
    /\ robots_reads = <<>>
    /\ norm_a = S
    /\ norm_b = S
    /\ norm_out = <<>>
    /\ calls = 1

SpecSchemes == InitSchemes /\ [][Next]_vars

\* The calls that have passed the rate limiter for a URL that satisfies
\* Same: the GETs issued, and the calls of the batch about to issue theirs.
PriorFetch(i, Same(_, _)) ==
    \/ \E g \in gets : Same(g.url, batch[i])
    \/ \E j \in 1..Len(batch) :
           j # i /\ wpc[j] = "get" /\ Same(batch[j], batch[i])

SameOrigin(u, v) == robots_domain(u) = robots_domain(v)
SameHost(u, v) == urlparse_netloc(u) = urlparse_netloc(v)

\* The call of slot i found a timestamp that makes it sleep.
Waits(i) == Running(i) /\ wpc[i] = "stamp" /\ wake[i] > now

\* C32 as stated: the rate limiter's scope is the origin (scheme and host):
\* a call waits only for an earlier fetch of the same origin, so a fetch
\* of http://h/a never delays a fetch of https://h/b.
C32_OriginScope ==
    \A i \in 1..Len(batch) : Waits(i) => PriorFetch(i, SameOrigin)

\* C32 amended: the rate limiter's scope is the host (netloc), whatever the
\* scheme, unlike the robots cache: a call waits only for an earlier fetch
\* of the same host, and with concurrency 1 any two GETs to one host, be
\* they http or https, are at least Delay apart.
C32_HostScope ==
    /\ \A i \in 1..Len(batch) : Waits(i) => PriorFetch(i, SameHost)
    /\ concurrent_requests = 1 =>
         \A g, h \in gets :
             (g # h /\ SameHost(g.url, h.url))
                 => (g.t - h.t >= Delay \/ h.t - g.t >= Delay)

\* The fetch of https://a.com/p is about to sleep, and the only GET made
\* so far went to http://a.com/.
C32_Witness ==
    /\ concurrent_requests = 1
    /\ Waits(1)
    /\ batch[1] = PS
    /\ gets # {}
    /\ \A g \in gets : g.url.scheme = "http"

\* C33 as stated: the rate limiter makes a call wait only for an origin
\* (scheme and host) with a recorded prior fetch, and inside a batch the
\* wait of one call does not hold back the GET of a URL of another origin.
C33_NoStallStated ==
    /\ \A i \in 1..Len(batch) : Waits(i) => PriorFetch(i, SameOrigin)
    /\ \A i, j \in 1..Len(batch) :
         (Waits(i) /\ Running(j) /\ wpc[j] = "get"
            /\ ~SameOrigin(batch[i], batch[j])) => ENABLED Get(j)

\* C33 amended: the rate limiter makes a call wait only for a host with a
\* recorded prior fetch, under either scheme, and inside a batch the wait
\* of one call does not hold back the GET of a URL of another host: that
\* GET can be issued while the other call still sleeps.
C33_NoStall ==
    /\ \A i \in 1..Len(batch) :
         Waits(i) => (urlparse_netloc(batch[i]) \in DOMAIN last_request_time
                      /\ PriorFetch(i, SameHost))
    /\ \A i, j \in 1..Len(batch) :
         (Waits(i) /\ Running(j) /\ wpc[j] = "get"
            /\ ~SameHost(batch[i], batch[j])) => ENABLED Get(j)

\* In one batch the call for a.com is to sleep while the call for b.com,
\* a host never fetched before, has passed the rate limiter without a
\* wait and can issue its GET.
C33_Witness ==
    /\ pc = "join"
    /\ Len(batch) = 2
    /\ Waits(1)
    /\ wpc[2] = "get"
    /\ wake[2] <= now
    /\ ~SameHost(batch[1], batch[2])
    /\ \A g \in gets : ~SameHost(g.url, batch[2])
    /\ ENABLED Get(2)

\* C34 as stated: never more than max_urls URLs are handed to the fetcher,
\* and when the crawl returns every URL handed to it has its outcome in
\* results.
C34_NoOverFetch ==
    /\ Len(handed) <= max_urls
    /\ pc = "done" => Links(HandedUrls) = Links(EntryUrls)

\* C34 amended: with concurrency 1 never more than max_urls URLs are
\* handed to the fetcher and each has its outcome in results; with
\* concurrency k > 1 up to max_urls + k - 1 are handed, and the ones left
\* out of results, fewer than k, are those of the batch whose fold made
\* len(results) = max_urls.
C34_OverFetchBound ==
    /\ Len(handed) <= max_urls + concurrent_requests - 1
    /\ concurrent_requests = 1 => Len(handed) <= max_urls
    /\ pc \in {"loop", "done"} =>
         /\ Len(handed) - Len(entries) < concurrent_requests
         /\ \A k \in 1..Len(entries) : entries[k].url = handed[k].url
         /\ Len(handed) > Len(entries) =>
              /\ Len(results) = max_urls
              /\ \A k \in (Len(entries) + 1)..Len(handed) :
                     handed[k].url \in Links(batch)

\* A concurrent crawl returned after it had issued the GET of one URL
\* more than max_urls; that URL is visited and has no outcome in results.
C34_Witness ==
    /\ pc = "done"
    /\ concurrent_requests > 1
    /\ Len(handed) = max_urls + 1
    /\ Len(results) = max_urls
    /\ GetIssued(handed[Len(handed)].url)
    /\ handed[Len(handed)].url \in visited
    /\ handed[Len(handed)].url \notin Links(EntryUrls)

(***************************************************************************)
(* The sequential crawl as a function of the configuration and the web.    *)
(***************************************************************************)
\* What _fetch_url(url) returns when robots.txt and the pages do not change.
Outcome(url) ==
    IF ~is_valid_url(url)
    THEN CrawlResult(url, 0, "", <<>>, "Invalid URL")
    ELSE IF respect_robots_txt
            /\ ~parser_can_fetch(cached_parser(robots_txt[url.netloc]), url)
    THEN Blocked(url)
    ELSE Classify(url, Served(web, url))

\* Lines 328-335 with the visited set vis.
RECURSIVE EnqueueSeq(_, _, _)
EnqueueSeq(links, depth, vis) ==
    IF links = <<>> THEN <<>>
    ELSE IF /\ Head(links) \notin vis
            /\ (follow_external_links
                  \/ urlparse_netloc(Head(links)) = base_domain)
         THEN <<<<Head(links), depth + 1>>>> \o EnqueueSeq(Tail(links), depth, vis)
         ELSE EnqueueSeq(Tail(links), depth, vis)

\* The while loop of line 272 with the body of lines 311-335.
RECURSIVE SeqCrawl(_, _, _)
SeqCrawl(tv, vis, res) ==
    IF tv = <<>> \/ Len(res) >= max_urls THEN res
    ELSE LET url == Head(tv)[1]
             depth == Head(tv)[2]
             result == Outcome(url)
             res1 == Append(res, result)
             vis1 == vis \cup {url}
         IN  IF url \in vis THEN SeqCrawl(Tail(tv), vis, res)
             ELSE IF Len(res1) >= max_urls THEN res1
             ELSE SeqCrawl(Tail(tv) \o
                             (IF depth < max_depth /\ result.links # <<>>
                              THEN EnqueueSeq(result.links, depth, vis1)
                              ELSE <<>>),
                           vis1, res1)

\* C35: when the outcome of a fetch is a function of the URL alone, crawl()
\* returns the same sequence for every concurrency: what it returns is
\* what the sequential loop computes for the same seed, max_depth,
\* max_urls and follow_external_links.
C35_SameAsSequential ==
    (pc = "done" /\ is_valid_url(start_url)) =>
        results = SeqCrawl(<< <<start_url, 0>> >>, {}, <<>>)

\* A concurrent crawl that returned four outcomes, after a batch whose
\* second call returned first and a fetch whose outcome was dropped.
C35_Witness ==
    /\ pc = "done"
    /\ concurrent_requests > 1
    /\ Len(results) = 4
    /\ Len(handed) > Len(results)
    /\ finished = <<2, 1>>
    /\ \E i \in 1..4 : results[i].error # ""

\* The links the crawl followed from the page of outcome i.
Followed(i) ==
    IF entries[i].depth < max_depth
    THEN { l \in Links(results[i].links) :
             follow_external_links \/ urlparse_netloc(l) = base_domain }
    ELSE {}

\* The URLs at the end of a chain of at most k followed links from the seed.
RECURSIVE Chain(_)
Chain(k) ==
    IF k = 0 THEN {start_url}
    ELSE LET c == Chain(k - 1)
         IN  c \cup UNION { Followed(i) :
                              i \in { j \in 1..Len(results) : entries[j].url \in c } }

\* The length of the shortest chain of followed links from the seed to u.
ShortestChain(u) ==
    CHOOSE k \in 0..Len(results) :
        u \in Chain(k) /\ \A m \in 0..(k - 1) : u \notin Chain(m)

\* C36: at every loop boundary the depths of the frontier entries are
\* non-decreasing from front to back and differ by at most 1, and every
\* URL was fetched at the depth that is the length of the shortest chain
\* of followed links from the seed to it.
C36_BreadthFirst ==
    pc = "loop" =>
        /\ \A a, b \in 1..Len(to_visit) :
               a < b => /\ to_visit[a][2] <= to_visit[b][2]
                        /\ to_visit[b][2] - to_visit[a][2] <= 1
        /\ \A k \in 1..Len(handed) :
               /\ handed[k].url \in Chain(Len(results))
               /\ handed[k].depth = ShortestChain(handed[k].url)

\* A loop boundary with entries of two depths in the frontier, one of
\* them for a URL that is also reachable by a longer chain.
C36_Witness ==
    /\ pc = "loop"
    /\ Len(to_visit) >= 2
    /\ to_visit[Len(to_visit)][2] = to_visit[1][2] + 1
    /\ Len(results) >= 2
    /\ \E k \in 1..Len(handed) : \E i \in 1..Len(results) :
           /\ handed[k].url \in Followed(i)
           /\ entries[i].depth >= handed[k].depth

\* C37: with follow_external_links false every URL handed to the fetcher
\* (the requested URL) and every frontier entry has the network location
\* of the normalized seed URL.
C37_StaysOnSeedHost ==
    (~follow_external_links /\ pc # "init") =>
        LET seed == urlparse_netloc(clean_url(start_url))
        IN  /\ \A k \in 1..Len(handed) :
                   urlparse_netloc(handed[k].url) = seed
            /\ \A k \in 1..Len(to_visit) :
                   urlparse_netloc(to_visit[k][1]) = seed
            /\ \A i \in 1..MaxConcurrency :
                   Running(i) => urlparse_netloc(batch[i]) = seed

\* A crawl confined to the seed's host has finished and a page it
\* fetched, below the depth limit, linked to another host.
C37_Witness ==
    /\ ~follow_external_links
    /\ pc = "done"
    /\ \E i \in 1..Len(results) :
           /\ entries[i].depth < max_depth
           /\ Len(results) < max_urls
           /\ \E l \in Links(results[i].links) :
                  /\ urlparse_netloc(l) # base_domain
                  /\ urlparse_netloc(l) # ""
                  /\ l \notin visited

\* C38: with respect_robots_txt false no robots.txt is fetched, the robots
\* cache stays empty, no worker is reading robots.txt and no outcome, kept
\* or still in its batch slot, carries the robots-blocked error.
C38_RobotsIgnored ==
    ~respect_robots_txt =>
        /\ robots_reads = <<>>
        /\ robots_cache = <<>>
        /\ \A i \in DOMAIN wpc : wpc[i] # "robots"
        /\ \A i \in 1..Len(results) : results[i] # Blocked(results[i].url)
        /\ \A i \in DOMAIN batch_results :
               batch_results[i] # Blocked(batch[i])

\* With respect_robots_txt false a GET was issued for a URL that the
\* host's robots.txt disallows.
C38_Witness ==
    /\ ~respect_robots_txt
    /\ \E g \in gets :
           /\ robots_txt[g.url.netloc] = "rules"
           /\ ~parser_can_fetch(cached_parser(robots_txt[g.url.netloc]), g.url)

====
